---- MODULE Spec2Model ----
(***************************************************************************)
(* Synthetic sunset-cloud data generation of the Hong Kong fire-cloud      *)
(* visualisation: HKODataCollector.generate_realistic_sunset_data          *)
(* (hko_data_collector.py) and HongKongSunsetClouds.generate_realistic_data*)
(* (hongkong_sunset_clouds.py).                                            *)
(*                                                                         *)
(* Real numbers are fixed point:                                           *)
(*   probabilities and Uniform(0,1) draws   1e-5   (0.8 is 80000)          *)
(*   record fields (intensity, minutes, %, C, hPa, km, km/h)  1e-2         *)
(*   standard normal / unit exponential / unit gamma draws    1e-3         *)
(*   sines, uniform multipliers                               1e-3         *)
(* A product is rounded down to the unit of its result.                    *)
(***************************************************************************)
EXTENDS Integers, Sequences, FiniteSets, TLC

VARIABLES
    pc,          \* "idle", "collector", "analyzer", "done", "raised", "cutoff"
    gen,         \* the generator of the current or last call
    start_year,  \* window of the current or last call
    end_year,
    date,        \* the next element of date_range
    data_list,   \* the rows appended so far
    rngState,    \* state of the process-wide np.random generator
    stream,      \* which generator function np.random computes
    seeded,      \* np.random.seed was called by the current or last call
    error,       \* the exception the last call raised
    baseline,    \* history: the first dataset a call produced
    rerun,       \* history: the current or last call began after baseline was set
    otherDraws,  \* history: draws other callers made since the last call
    locals,      \* loop locals of the last iteration
    pure,        \* the last evaluation of a function on its own
    report,      \* the statistics the last completed call or save printed
    twin,        \* two generations over streams that differ in one value
    app          \* the analyzer object and the position of a call on it

vars == <<pc, gen, start_year, end_year, date, data_list, rngState, stream,
          seeded, error, baseline, rerun, otherDraws, locals, pure, report, twin, app>>

(***************************************************************************)
(* Bounds of the model.                                                    *)
(***************************************************************************)
\* number of different years a caller may pass as start_year or end_year
MaxYears == 2
\* a generation loop is followed for at most MaxRows iterations
MaxRows == 368
\* draws other callers make from the process-wide stream
MaxOtherDraws == 1
\* year offsets (year - start_year) tried on the probability model alone
MaxOffset == 20
\* how far outside [lo, hi] the inputs of the clamp are taken
ClampMargin == 3

\* days two generations are followed side by side
MaxTwinDays == 3
\* the longest period of the occurrence patterns handed to the statistics
MaxPeriod == 4
\* the most rows of a dataset handed to save_data
MaxSaveRows == 2

\* def generate_realistic_sunset_data(self, start_year=2000, end_year=2020)
DEFAULT_START_YEAR == 2000
DEFAULT_END_YEAR == 2020

\* the years a caller passes: the last MaxYears years up to the default end
Years == (DEFAULT_END_YEAR - MaxYears + 1) .. DEFAULT_END_YEAR

(***************************************************************************)
(* Calendar: datetime(year, 1, 1), datetime(year, 12, 31) and              *)
(* pd.date_range(start, end, freq='D').                                    *)
(***************************************************************************)
IsLeap(y) == (y % 4 = 0 /\ y % 100 # 0) \/ y % 400 = 0

DaysInMonth(y, m) ==
    IF m = 2 THEN (IF IsLeap(y) THEN 29 ELSE 28)
    ELSE IF m \in {4, 6, 9, 11} THEN 30 ELSE 31

MkDate(y, m, d) == [year |-> y, month |-> m, day |-> d]

\* a date range that takes every February to have 28 days
NextDayNoLeap(dt) ==
    IF dt.day < (IF dt.month = 2 THEN 28 ELSE DaysInMonth(dt.year, dt.month))
    THEN MkDate(dt.year, dt.month, dt.day + 1)
    ELSE IF dt.month < 12 THEN MkDate(dt.year, dt.month + 1, 1)
    ELSE MkDate(dt.year + 1, 1, 1)

\* the next element of a daily date range
NextDay(dt) ==
    IF dt.day < DaysInMonth(dt.year, dt.month)
    THEN MkDate(dt.year, dt.month, dt.day + 1)
    ELSE IF dt.month < 12 THEN MkDate(dt.year, dt.month + 1, 1)
    ELSE MkDate(dt.year + 1, 1, 1)

\* a range that leaves its end date out
DateLT(a, b) ==
    \/ a.year < b.year
    \/ a.year = b.year /\ a.month < b.month
    \/ a.year = b.year /\ a.month = b.month /\ a.day < b.day

\* chronological order of two dates, as date_range compares start and end
DateLE(a, b) ==
    \/ a.year < b.year
    \/ a.year = b.year /\ a.month < b.month
    \/ a.year = b.year /\ a.month = b.month /\ a.day <= b.day

\* days of the year before the first of month m (datetime's table of
\* days before each month, one more after February of a leap year)
DAYS_BEFORE_MONTH == <<0, 31, 59, 90, 120, 151, 181, 212, 243, 273, 304, 334>>
DaysBeforeMonth(y, m) ==
    DAYS_BEFORE_MONTH[m] + (IF m > 2 /\ IsLeap(y) THEN 1 ELSE 0)

\* date.timetuple().tm_yday
tm_yday(dt) == DaysBeforeMonth(dt.year, dt.month) + dt.day

\* proleptic Gregorian ordinal (datetime.toordinal), the measure behind
\* (end_date - start_date).days
ToOrdinal(dt) ==
    LET y == dt.year - 1
    IN  365 * y + (y \div 4) - (y \div 100) + (y \div 400) + tm_yday(dt)

(***************************************************************************)
(* fetch_current_conditions: the static climate profile.                   *)
(***************************************************************************)
\* the table with the values of October and November exchanged
monthly_sunset_probability_oct_nov_swapped ==
    <<25000, 28000, 20000, 15000, 12000, 8000,
      10000, 12000, 18000, 40000, 35000, 30000>>
\* 'monthly_sunset_probability': {1: 0.25, ..., 12: 0.30}, by month
monthly_sunset_probability ==
    <<25000, 28000, 20000, 15000, 12000, 8000,
      10000, 12000, 18000, 35000, 40000, 30000>>

average_temperature ==
    <<1710, 1830, 2180, 2580, 2910, 3120, 3210, 3190, 3010, 2680, 2250, 1870>>

average_humidity ==
    <<7200, 7800, 8200, 8400, 8500, 8300, 8200, 8100, 7700, 7300, 6800, 6900>>

average_pressure ==
    <<101800, 101600, 101300, 100900, 100600, 100400,
      100400, 100600, 101100, 101600, 101900, 102000>>

(***************************************************************************)
(* get_historical_weather_patterns: seasonal factors (cloud_factor in      *)
(* tenths), in the order the dictionary lists them.                        *)
(***************************************************************************)
\* a table whose winter forgets February
seasonal_factors_no_february ==
    << [season |-> "spring", months |-> {3, 4, 5},   cloud_factor |-> 6],
       [season |-> "summer", months |-> {6, 7, 8},   cloud_factor |-> 4],
       [season |-> "autumn", months |-> {9, 10, 11}, cloud_factor |-> 12],
       [season |-> "winter", months |-> {12, 1},     cloud_factor |-> 10] >>

seasonal_factors ==
    << [season |-> "spring", months |-> {3, 4, 5},   cloud_factor |-> 6],
       [season |-> "summer", months |-> {6, 7, 8},   cloud_factor |-> 4],
       [season |-> "autumn", months |-> {9, 10, 11}, cloud_factor |-> 12],
       [season |-> "winter", months |-> {12, 1, 2},  cloud_factor |-> 10] >>

\* np.sin(2 * np.pi * k / 3.5): period 7 in whole years
enso_sin == <<0, 975, -434, -782, 782, 434, -975>>
\* np.sin(2 * np.pi * k / 11)
sunspot_sin == <<0, 541, 910, 990, 756, 282, -282, -756, -990, -910, -541>>
\* np.sin(2 * np.pi * k / 7)
year_cycle_sin == <<0, 782, 975, 434, -434, -975, -782>>

enso_phase_of(k) == enso_sin[(k % 7) + 1]
sunspot_phase_of(k) == sunspot_sin[(k % 11) + 1]

(***************************************************************************)
(* max(lo, min(hi, x)) as the records are built.                           *)
(***************************************************************************)
Min2(a, b) == IF a <= b THEN a ELSE b
Max2(a, b) == IF a >= b THEN a ELSE b
\* a clamp that forgets the lower bound
ClampNoLower(lo, hi, x) == Min2(hi, x)
\* a clamp that forgets the upper bound
ClampNoUpper(lo, hi, x) == Max2(lo, x)
Clamp(lo, hi, x) == Max2(lo, Min2(hi, x))

\* a probability bounded at 1.0, as the built-in generator bounds its own
ProbabilityClampUnit(p) == Clamp(0, 100000, p)
\* final_prob = max(0, min(0.8, final_prob))
ProbabilityClamp(p) == Clamp(0, 80000, p)

\* an else branch that sets the attributes to 1 instead of 0
GatedToOne(has_sunset_clouds, value) == IF has_sunset_clouds THEN value ELSE 100
\* if has_sunset_clouds: <sampled value> else: 0, for the four attributes
\* of the phenomenon
Gated(has_sunset_clouds, value) == IF has_sunset_clouds THEN value ELSE 0

(***************************************************************************)
(* The pseudorandom stream (np.random).  The generator is a deterministic  *)
(* function of its state: seed() sets the state, every draw advances it    *)
(* and returns a value computed from it.  Which function numpy computes is *)
(* left open among the linear congruential streams of StreamIds; a draw    *)
(* yields one of NumLevels quantile levels, which each distribution maps   *)
(* to a value of its own (lowest and highest level: far tails).            *)
(***************************************************************************)
RNG_SEED == 42
RngModulus == 65521
Levels == 1 .. 8
NumLevels == Cardinality(Levels)

StreamIds == {1, 2}
StreamMul(id) == IF id = 1 THEN 17364 ELSE 32236
StreamInc(id) == IF id = 1 THEN 4099 ELSE 1

\* a call that leaves the generator as it found it
np_random_seed_skipped(st, s) == st
\* np.random.seed(s) called with the generator in state st: the new state
np_random_seed(st, s) == s % RngModulus

\* the generator state after one more draw
Advance(id, st) == (StreamMul(id) * st + StreamInc(id)) % RngModulus

RECURSIVE AdvanceN(_, _, _)
AdvanceN(id, st, n) == IF n = 0 THEN st ELSE AdvanceN(id, Advance(id, st), n - 1)

\* the level returned by the draw that leaves the generator in state st
LevelOf(st) == ((st * NumLevels) \div RngModulus) + 1

\* the levels of the next n draws from state st, in the order they are issued
StreamDraws(id, st, n) == [i \in 1 .. n |-> LevelOf(AdvanceN(id, st, i))]

\* standard normal deviate, 1e-3
StdNormal == <<-6000, -2000, -1000, -300, 300, 1000, 2000, 6000>>
\* np.random.random(): uniform on [0, 1), 1e-5
Uniform01 == <<0, 5000, 15000, 30000, 50000, 70000, 85000, 99999>>
\* np.random.beta(2, 2), 1e-2
Beta22 == <<1, 10, 25, 40, 60, 75, 90, 99>>
\* np.random.beta(2, 3), 1e-2
Beta23 == <<1, 8, 20, 30, 40, 55, 75, 98>>
\* exponential with mean 1, 1e-3
StdExponential == <<0, 100, 300, 700, 1200, 2000, 4500, 9000>>
\* gamma with shape 2 and scale 1, 1e-3 (strictly positive)
Gamma2 == <<10, 350, 800, 1400, 2000, 2700, 4000, 9000>>
\* gamma with shape 3 and scale 1, 1e-3
Gamma3 == <<50, 900, 1500, 2200, 3000, 3900, 5500, 11000>>

\* np.random.normal(0, sigma) in 1e-2, sigma a whole number
Normal100(sigma, lv) == (sigma * StdNormal[lv]) \div 10
\* np.random.uniform(a, b) in 1e-3, a and b given in 1e-3
UniformAB(a, b, lv) == a + ((b - a) * Uniform01[lv]) \div 100000

(***************************************************************************)
(* HKODataCollector.generate_realistic_sunset_data: one iteration of the   *)
(* loop over date_range.  d gives the levels of the draws the iteration    *)
(* issues, d[1] the first; the result tells how many it consumed.          *)
(***************************************************************************)
\* for season, info in seasonal_factors.items(): if month in info['months']
\* the index of the first season that lists the month, 0 when none does
RECURSIVE FirstSeason(_, _)
FirstSeason(month, i) ==
    IF i > Len(seasonal_factors) THEN 0
    ELSE IF month \in seasonal_factors[i].months THEN i
    ELSE FirstSeason(month, i + 1)

\* season_factor = 1.0, replaced by the cloud_factor of the first match
SeasonFactor(month) ==
    LET i == FirstSeason(month, 1)
    IN  IF i = 0 THEN 10 ELSE seasonal_factors[i].cloud_factor

\* final_prob of the day: k = year - start_year, noise the level of
\* np.random.normal(0, 0.2)
CollectorProbability(month, k, noise) ==
    LET base_prob == monthly_sunset_probability[month]
        enso_phase == enso_phase_of(k)
        sunspot_phase == sunspot_phase_of(k)
        season_factor == SeasonFactor(month)
        \* urbanization_trend = 1 + 0.01 * k / 20, in 1/2000
        urbanization_trend == 2000 + k
        \* daily_weather, 1e-4
        daily_weather == 2 * StdNormal[noise]
        prob1 == (((base_prob * season_factor) \div 10) * urbanization_trend) \div 2000
        \* 1 + 0.1 * enso_phase + 0.05 * sunspot_phase + daily_weather, 1e-4
        factor == 10000 + enso_phase + (sunspot_phase \div 2) + daily_weather
        prob2 == (prob1 * factor) \div 10000
    IN  [ base_prob |-> base_prob,
          raw |-> prob2, factor |-> factor, season_factor |-> season_factor,
          enso_phase |-> enso_phase,
          final_prob |-> ProbabilityClamp(prob2) ]

\* a loop body that samples the weather before the attributes
CollectorDrawOrderWeatherFirst(has_sunset_clouds) ==
    <<"daily_weather", "has_sunset_clouds">>
        \o <<"temp", "humidity", "pressure", "visibility", "wind_speed">>
        \o (IF has_sunset_clouds
            THEN <<"base_intensity", "multiplier", "duration", "coverage",
                   "color_richness">>
            ELSE <<>>)
\* the draws one iteration issues, named by the local each is assigned to,
\* in the order the loop body issues them
CollectorDrawOrder(has_sunset_clouds) ==
    <<"daily_weather", "has_sunset_clouds">>
        \o (IF has_sunset_clouds
            THEN <<"base_intensity", "multiplier", "duration", "coverage",
                   "color_richness">>
            ELSE <<>>)
        \o <<"temp", "humidity", "pressure", "visibility", "wind_speed">>

\* the level of the draw called name, d[1] being the first draw of order
DrawOf(order, d, name) == d[CHOOSE i \in 1 .. Len(order) : order[i] = name]

\* np.random.normal(mean, sigma), the result multiplied by tenths / 10
NormalDist(mean, sigma, tenths) ==
    [dist |-> "normal", a |-> mean, b |-> sigma, tenths |-> tenths]
\* np.random.gamma(shape, scale)
GammaDist(shape, scale) == [dist |-> "gamma", a |-> shape, b |-> scale, tenths |-> 10]

\* the value a draw of level lv from the distribution w gives, 1e-2
Sample(w, lv) ==
    IF w.dist = "normal" THEN ((w.a + Normal100(w.b, lv)) * w.tenths) \div 10
    ELSE (w.b * (IF w.a = 3 THEN Gamma3[lv] ELSE Gamma2[lv])) \div 10

\* the distributions the five weather values of a day are drawn from
CollectorWeather(month) ==
    [ temp |-> NormalDist(average_temperature[month], 3, 10),
      humidity |-> NormalDist(average_humidity[month], 8, 10),
      pressure |-> NormalDist(average_pressure[month], 10, 10),
      \* base_visibility = 15, times 0.7 or 1.1
      visibility |-> IF month \in {3, 4, 5, 6} THEN NormalDist(1050, 3, 10)
                     ELSE NormalDist(1650, 4, 10),
      wind_speed |-> IF month \in {10, 11, 12, 1, 2} THEN GammaDist(3, 4)
                     ELSE GammaDist(2, 3) ]

\* the interval the seasonal multiplier of the intensity is drawn from, 1e-3
CollectorMultiplierRange(month) ==
    IF month \in {10, 11, 12, 1} THEN <<1200, 1500>>
    ELSE IF month \in {6, 7, 8} THEN <<600, 900>>
    ELSE <<800, 1100>>

\* the iteration from "if has_sunset_clouds:" on: p the probability model of
\* the day, order the draws the iteration issues
CollectorDurationNoBase(lv) == (25 * StdExponential[lv]) \div 10

\* duration = 15 + np.random.exponential(25), in hundredths of a minute
CollectorDuration(lv) == 1500 + (25 * StdExponential[lv]) \div 10

CollectorAttributes(dt, d, p, has_sunset_clouds, order) ==
    LET year == dt.year
        month == dt.month
        base_intensity == Beta22[DrawOf(order, d, "base_intensity")] * 10
        range == CollectorMultiplierRange(month)
        multiplier == UniformAB(range[1], range[2], DrawOf(order, d, "multiplier"))
        intensity == Gated(has_sunset_clouds, (base_intensity * multiplier) \div 1000)
        duration ==
            Gated(has_sunset_clouds, CollectorDuration(DrawOf(order, d, "duration")))
        coverage ==
            Gated(has_sunset_clouds, Beta23[DrawOf(order, d, "coverage")] * 100)
        color_multiplier == UniformAB(800, 1200, DrawOf(order, d, "color_richness"))
        color_richness ==
            Gated(has_sunset_clouds, (intensity * color_multiplier) \div 1000)
        weather == CollectorWeather(month)
        temp == Sample(weather.temp, DrawOf(order, d, "temp"))
        humidity == Sample(weather.humidity, DrawOf(order, d, "humidity"))
        pressure == Sample(weather.pressure, DrawOf(order, d, "pressure"))
        visibility == Sample(weather.visibility, DrawOf(order, d, "visibility"))
        wind_speed == Sample(weather.wind_speed, DrawOf(order, d, "wind_speed"))
    IN  [ used |-> Len(order),
          order |-> order,
          weather |-> weather,
          final_prob |-> p.final_prob,
          raw_prob |-> p.raw,
          matched |-> FirstSeason(month, 1),
          raw |-> [intensity |-> intensity, duration |-> duration,
                   coverage |-> coverage, color_richness |-> color_richness,
                   humidity |-> humidity, visibility |-> visibility,
                   wind_speed |-> wind_speed,
                   multiplier |-> Gated(has_sunset_clouds, multiplier),
                   color_multiplier |-> Gated(has_sunset_clouds, color_multiplier)],
          row |-> [ date |-> dt,
                    year |-> year,
                    month |-> month,
                    day_of_year |-> tm_yday(dt),
                    has_sunset_clouds |-> has_sunset_clouds,
                    intensity |-> Clamp(0, 1000, intensity),
                    duration_minutes |-> Clamp(0, 12000, duration),
                    coverage_percent |-> Clamp(0, 10000, coverage),
                    color_richness |-> Clamp(0, 1000, color_richness),
                    temperature_c |-> temp,
                    humidity_percent |-> Clamp(0, 10000, humidity),
                    pressure_hpa |-> pressure,
                    visibility_km |-> Clamp(100, 5000, visibility),
                    wind_speed_kmh |-> Max2(0, wind_speed),
                    season_factor |-> p.season_factor,
                    enso_phase |-> p.enso_phase ] ]

\* one iteration: the probability, the occurrence, then the attributes; five
\* of the draws are issued only when the phenomenon occurred
CollectorOccurred(dt, d, p, has_sunset_clouds) ==
    CollectorAttributes(dt, d, p, has_sunset_clouds,
                        CollectorDrawOrder(has_sunset_clouds))

OccurredAtOrBelow(u, final_prob) == u <= final_prob

\* has_sunset_clouds = np.random.random() < final_prob
OccurredAt(u, final_prob) == u < final_prob

\* the occurrence of a day: the second draw against the clamped probability
CollectorHas(d, p) == OccurredAt(Uniform01[d[2]], p.final_prob)

CollectorDecided(dt, d, p) ==
    CollectorOccurred(dt, d, p, CollectorHas(d, p))

CollectorDay(dt, sy, d) ==
    CollectorDecided(dt, d, CollectorProbability(dt.month, dt.year - sy, d[1]))

(***************************************************************************)
(* HongKongSunsetClouds.generate_realistic_data: one iteration of the loop *)
(* of the built-in generator (window fixed to 2000..2020).                 *)
(***************************************************************************)
realistic_month_prob ==
    <<25000, 28000, 20000, 15000, 12000, 8000,
      10000, 12000, 18000, 35000, 40000, 30000>>

avg_temp_by_month ==
    <<1700, 1800, 2200, 2600, 2900, 3100, 3200, 3200, 3000, 2700, 2300, 1900>>

avg_humidity_by_month ==
    <<7200, 7800, 8200, 8400, 8500, 8300, 8200, 8100, 7700, 7300, 6800, 6900>>

\* final_prob of the day: k = year - 2000, noise the level of
\* np.random.normal(0, 0.3)
AnalyzerProbability(month, k, noise) ==
    LET base_prob == realistic_month_prob[month]
        year_cycle == year_cycle_sin[(k % 7) + 1] * 10
        climate_trend == 100 * k
        daily_random == 30 * StdNormal[noise]
        prob == base_prob + year_cycle + climate_trend + daily_random
    IN  [base_prob |-> base_prob, raw |-> prob,
         final_prob |-> Clamp(0, 100000, prob)]

\* the draws one iteration issues, in the order the loop body issues them
AnalyzerDrawOrder(has_sunset_clouds) ==
    <<"daily_random", "has_sunset_clouds">>
        \o (IF has_sunset_clouds
            THEN <<"base_intensity", "multiplier", "wind_factor", "duration",
                   "coverage", "visibility", "wind_speed", "color_richness">>
            ELSE <<"visibility", "wind_speed">>)
        \o <<"temperature", "humidity", "pressure">>

\* the distributions the five weather values of a day are drawn from:
\* visibility and wind speed are sampled inside the if / else on
\* has_sunset_clouds, the other three after it
AnalyzerWeather(month, has_sunset_clouds) ==
    [ temp |-> NormalDist(avg_temp_by_month[month], 3, 10),
      humidity |-> NormalDist(avg_humidity_by_month[month], 8, 10),
      pressure |-> NormalDist(101300, 10, 10),
      visibility |->
          IF has_sunset_clouds
          THEN (IF month \in {3, 4, 5, 6} THEN NormalDist(1500, 5, 7)
                ELSE NormalDist(1500, 5, 10))
          ELSE NormalDist(1200, 4, 10),
      wind_speed |->
          IF has_sunset_clouds
          THEN (IF month \in {10, 11, 12, 1, 2} THEN GammaDist(3, 4)
                ELSE GammaDist(2, 3))
          ELSE GammaDist(2, 3) ]

\* the iteration from "if has_sunset_clouds:" on
AnalyzerAttributes(dt, d, p, has_sunset_clouds, order) ==
    LET year == dt.year
        month == dt.month
        base_intensity == Beta22[DrawOf(order, d, "base_intensity")] * 10
        multiplier ==
            IF month \in {10, 11, 12, 1}
            THEN UniformAB(1100, 1400, DrawOf(order, d, "multiplier"))
            ELSE UniformAB(700, 1000, DrawOf(order, d, "multiplier"))
        intensity == Gated(has_sunset_clouds, (base_intensity * multiplier) \div 1000)
        \* wind_factor = gamma(2, 1); duration = 15 + exponential(20) / wind_factor
        duration ==
            Gated(has_sunset_clouds,
                  1500 + (2000 * StdExponential[DrawOf(order, d, "duration")])
                            \div Gamma2[DrawOf(order, d, "wind_factor")])
        coverage ==
            Gated(has_sunset_clouds, Beta23[DrawOf(order, d, "coverage")] * 100)
        weather == AnalyzerWeather(month, has_sunset_clouds)
        visibility == Sample(weather.visibility, DrawOf(order, d, "visibility"))
        wind_speed == Sample(weather.wind_speed, DrawOf(order, d, "wind_speed"))
        color_multiplier == UniformAB(800, 1200, DrawOf(order, d, "color_richness"))
        color_richness ==
            Gated(has_sunset_clouds, (intensity * color_multiplier) \div 1000)
        temperature == Sample(weather.temp, DrawOf(order, d, "temperature"))
        humidity == Sample(weather.humidity, DrawOf(order, d, "humidity"))
        pressure == Sample(weather.pressure, DrawOf(order, d, "pressure"))
    IN  [ used |-> Len(order),
          order |-> order,
          weather |-> weather,
          final_prob |-> p.final_prob,
          raw_prob |-> p.raw,
          matched |-> 0,
          raw |-> [intensity |-> intensity, duration |-> duration,
                   coverage |-> coverage, color_richness |-> color_richness,
                   humidity |-> humidity, visibility |-> visibility,
                   wind_speed |-> wind_speed,
                   multiplier |-> Gated(has_sunset_clouds, multiplier),
                   color_multiplier |-> Gated(has_sunset_clouds, color_multiplier)],
          row |-> [ date |-> dt,
                    year |-> year,
                    month |-> month,
                    day_of_year |-> tm_yday(dt),
                    has_sunset_clouds |-> has_sunset_clouds,
                    intensity |-> Clamp(0, 1000, intensity),
                    duration_minutes |-> Clamp(0, 12000, duration),
                    coverage_percent |-> Clamp(0, 10000, coverage),
                    visibility_km |-> Clamp(100, 5000, visibility),
                    wind_speed_kmh |-> Max2(0, wind_speed),
                    color_richness |-> Clamp(0, 1000, color_richness),
                    temperature_c |-> temperature,
                    humidity_percent |-> Clamp(0, 10000, humidity),
                    pressure_hpa |-> pressure ] ]

AnalyzerOccurred(dt, d, p, has_sunset_clouds) ==
    AnalyzerAttributes(dt, d, p, has_sunset_clouds,
                       AnalyzerDrawOrder(has_sunset_clouds))

AnalyzerDecided(dt, d, p) ==
    AnalyzerOccurred(dt, d, p, Uniform01[d[2]] < p.final_prob)

AnalyzerDay(dt, d) ==
    AnalyzerDecided(dt, d,
                    AnalyzerProbability(dt.month, dt.year - DEFAULT_START_YEAR, d[1]))

(***************************************************************************)
(* The program: calls of the two generators, one loop iteration a step.    *)
(***************************************************************************)
NoBaseline ==
    [gen |-> "none", start_year |-> 0, end_year |-> 0, complete |-> FALSE, df |-> <<>>]
NoLocals == [used |-> 0]
NoPure == [op |-> "none"]
NoReport == [by |-> "none"]
NoTwin == [on |-> FALSE]
NoApp ==
    [pc |-> "idle", method |-> "none", file_exists |-> FALSE,
     HAS_DATA_COLLECTOR |-> FALSE, data |-> "None", returned |-> "none",
     generated |-> FALSE, network |-> 0, charts |-> 0, failed |-> "none",
     in_try |-> FALSE]

\* states in which no generation call is on the stack
Callable == {"idle", "done", "raised", "cutoff"}

\* the generator state before any seeding (seeded from the OS)
EntropyStates == {7, 4242}

start_date == MkDate(start_year, 1, 1)
end_date == MkDate(end_year, 12, 31)

Init ==
    /\ pc = "idle"
    /\ gen = "none"
    /\ start_year = DEFAULT_START_YEAR
    /\ end_year = DEFAULT_END_YEAR
    /\ date = MkDate(DEFAULT_START_YEAR, 1, 1)
    /\ data_list = <<>>
    /\ rngState \in EntropyStates
    /\ stream \in StreamIds
    /\ seeded = FALSE
    /\ error = "none"
    /\ baseline = NoBaseline
    /\ rerun = FALSE
    /\ otherDraws = 0
    /\ locals = NoLocals
    /\ pure = NoPure
    /\ report = NoReport
    /\ twin = NoTwin
    /\ app = NoApp

\* the dataset a call leaves behind, kept if it is the first
Recorded(complete, df) ==
    IF baseline.gen = "none"
    THEN [gen |-> gen, start_year |-> start_year, end_year |-> end_year,
          complete |-> complete, df |-> df]
    ELSE baseline

\* another caller draws from the process-wide stream between calls
OtherDraw ==
    /\ pc \in Callable
    /\ otherDraws < MaxOtherDraws
    /\ rngState' = Advance(stream, rngState)
    /\ otherDraws' = otherDraws + 1
    /\ UNCHANGED <<pc, gen, start_year, end_year, date, data_list, stream, seeded,
                   error, baseline, rerun, locals, pure, report, twin, app>>

\* generate_realistic_sunset_data(sy, ey) up to the loop: the date range,
\* data_list = [] and np.random.seed(42)
CollectorStart(sy, ey) ==
    /\ pc \in Callable
    /\ pc' = "collector"
    /\ gen' = "collector"
    /\ start_year' = sy
    /\ end_year' = ey
    /\ date' = MkDate(sy, 1, 1)
    /\ data_list' = <<>>
    /\ rngState' = np_random_seed(rngState, RNG_SEED)
    /\ seeded' = TRUE
    /\ error' = "none"
    /\ locals' = NoLocals
    /\ rerun' = (baseline.gen # "none")
    /\ otherDraws' = 0
    /\ report' = NoReport
    /\ UNCHANGED <<stream, baseline, pure, twin, app>>

\* df['has_sunset_clouds'].sum()
Occurrences(df) == Cardinality({i \in 1 .. Len(df) : df[i].has_sunset_clouds})

\* a quotient of two whole numbers, kept exact
Fraction(num, den) == [num |-> num, den |-> den]

\* the statistics the collector prints after the loop; rate in percent
CollectorStatistics(df, sy, ey) ==
    LET total_days == Len(df)
        sunset_days == Occurrences(df)
    IN  [ by |-> "collector",
          total_days |-> total_days,
          sunset_days |-> sunset_days,
          annual_avg |-> Fraction(sunset_days, ey - sy + 1),
          rate |-> Fraction(sunset_days * 100, total_days) ]

\* the statistics the built-in generator prints after the loop
AnalyzerStatistics(df) ==
    LET total_observations == Len(df)
        cloud_observations == Occurrences(df)
    IN  [ by |-> "analyzer",
          total_observations |-> total_observations,
          cloud_observations |-> cloud_observations,
          annual_rate |-> Fraction(cloud_observations * 365, total_observations) ]

\* a loop that keeps the record of the last day only
AppendedOverLast(list, row) ==
    IF Len(list) = 0 THEN <<row>>
    ELSE Append(SubSeq(list, 1, Len(list) - 1), row)
\* data_list.append({...})
Appended(list, row) == Append(list, row)

\* the effect of one loop iteration that computed r
Iterated(r) ==
    /\ data_list' = Appended(data_list, r.row)
    /\ rngState' = AdvanceN(stream, rngState, r.used)
    /\ date' = NextDay(date)
    /\ locals' = [used |-> r.used, final_prob |-> r.final_prob,
                  raw_prob |-> r.raw_prob, matched |-> r.matched, raw |-> r.raw]
    /\ IF Len(data_list') = MaxRows /\ DateLE(date', end_date)
       THEN \* the rest of the loop lies beyond the rows the model follows
            /\ pc' = "cutoff"
            /\ baseline' = Recorded(FALSE, data_list')
       ELSE UNCHANGED <<pc, baseline>>
    /\ UNCHANGED <<gen, start_year, end_year, stream, seeded, error, rerun,
                   otherDraws, pure, report, twin, app>>

\* date_range has a next element
HasNext == DateLE(date, end_date)

\* for date in date_range: ... data_list.append({...})
CollectorIterate ==
    /\ pc = "collector"
    /\ HasNext
    /\ Len(data_list) < MaxRows
    /\ Iterated(CollectorDay(date, start_year, StreamDraws(stream, rngState, 12)))

\* after the loop: df = pd.DataFrame(data_list), the statistics, return df.
\* A frame built from an empty list has no columns, so
\* df['has_sunset_clouds'] raises KeyError.
CollectorFinish ==
    /\ pc = "collector"
    /\ ~HasNext
    /\ IF Len(data_list) = 0
       THEN /\ pc' = "raised"
            /\ error' = "KeyError"
            /\ UNCHANGED <<baseline, report>>
       ELSE /\ pc' = "done"
            /\ error' = "none"
            /\ baseline' = Recorded(TRUE, data_list)
            /\ report' = CollectorStatistics(data_list, start_year, end_year)
    /\ UNCHANGED <<gen, start_year, end_year, date, data_list, rngState, stream,
                   seeded, rerun, otherDraws, locals, pure, twin, app>>

\* generate_realistic_data() up to the loop
AnalyzerStart ==
    /\ pc \in Callable
    /\ pc' = "analyzer"
    /\ gen' = "analyzer"
    /\ start_year' = DEFAULT_START_YEAR
    /\ end_year' = DEFAULT_END_YEAR
    /\ date' = MkDate(DEFAULT_START_YEAR, 1, 1)
    /\ data_list' = <<>>
    /\ rngState' = np_random_seed(rngState, RNG_SEED)
    /\ seeded' = TRUE
    /\ error' = "none"
    /\ locals' = NoLocals
    /\ rerun' = (baseline.gen # "none")
    /\ otherDraws' = 0
    /\ report' = NoReport
    /\ UNCHANGED <<stream, baseline, pure, twin, app>>

AnalyzerIterate ==
    /\ pc = "analyzer"
    /\ HasNext
    /\ Len(data_list) < MaxRows
    /\ Iterated(AnalyzerDay(date, StreamDraws(stream, rngState, 13)))

Next ==
    \/ OtherDraw
    \/ \E sy \in Years, ey \in Years : CollectorStart(sy, ey)
    \/ CollectorIterate
    \/ CollectorFinish
    \/ AnalyzerStart
    \/ AnalyzerIterate

Spec == Init /\ [][Next]_vars

(***************************************************************************)
(* The functions on their own: each is applied once to inputs drawn from   *)
(* bounded sets.                                                           *)
(***************************************************************************)
\* the first day of every month of the default end year, and its leap day
SampleDates ==
    {MkDate(DEFAULT_END_YEAR, m, 1) : m \in 1 .. 12} \cup {MkDate(DEFAULT_END_YEAR, 2, 29)}

\* draw levels of one day: every level for the noise, the two extreme
\* levels for every later draw
DrawVectors(n) ==
    { [i \in 1 .. n |-> IF i = 1 THEN a ELSE t[i]] :
        a \in Levels, t \in [2 .. n -> {1, NumLevels}] }

\* the (lo, hi) pairs the generators clamp with
ClampBounds ==
    { <<0, 1000>>, <<0, 12000>>, <<0, 10000>>, <<100, 5000>>, <<0, 80000>>,
      <<0, 100000>> }

ClampInputs(b) ==
    ((b[1] - ClampMargin) .. (b[1] + ClampMargin))
        \cup ((b[2] - ClampMargin) .. (b[2] + ClampMargin))
        \cup {(b[1] + b[2]) \div 2}

PureRest ==
    UNCHANGED <<pc, gen, start_year, end_year, date, data_list, rngState, stream,
                seeded, error, baseline, rerun, otherDraws, locals>>

\* what is kept of a day computed on its own
Kept(r) ==
    [used |-> r.used, final_prob |-> r.final_prob, raw_prob |-> r.raw_prob,
     matched |-> r.matched, raw |-> r.raw, row |-> r.row]

PureProbability ==
    /\ pure.op = "none"
    /\ \E month \in 1 .. 12, k \in 0 .. MaxOffset, noise \in Levels :
          pure' = [op |-> "probability", month |-> month, k |-> k, noise |-> noise,
                   res |-> CollectorProbability(month, k, noise)]
    /\ PureRest
    /\ UNCHANGED <<report, twin, app>>

PureCollectorDay ==
    /\ pure.op = "none"
    /\ \E dt \in SampleDates, d \in DrawVectors(12) :
          pure' = [op |-> "collector_day", res |-> Kept(CollectorDay(dt, dt.year, d))]
    /\ PureRest
    /\ UNCHANGED <<report, twin, app>>

PureAnalyzerDay ==
    /\ pure.op = "none"
    /\ \E dt \in SampleDates, d \in DrawVectors(13) :
          pure' = [op |-> "analyzer_day", res |-> Kept(AnalyzerDay(dt, d))]
    /\ PureRest
    /\ UNCHANGED <<report, twin, app>>

\* the distributions generator g draws the weather of a day from
WeatherOf(g, month, has_sunset_clouds) ==
    IF g = "collector" THEN CollectorWeather(month)
    ELSE AnalyzerWeather(month, has_sunset_clouds)

\* the weather model of a day of either generator
PureWeather ==
    /\ pure.op = "none"
    /\ \E g \in {"collector", "analyzer"}, month \in 1 .. 12,
          has_sunset_clouds \in BOOLEAN :
          pure' = [op |-> "weather", gen |-> g, month |-> month,
                   has_sunset_clouds |-> has_sunset_clouds,
                   order |-> IF g = "collector"
                             THEN CollectorDrawOrder(has_sunset_clouds)
                             ELSE AnalyzerDrawOrder(has_sunset_clouds),
                   res |-> WeatherOf(g, month, has_sunset_clouds)]
    /\ PureRest
    /\ UNCHANGED <<report, twin, app>>

PureClamp ==
    /\ pure.op = "none"
    /\ \E b \in ClampBounds : \E x \in ClampInputs(b) :
          pure' = [op |-> "clamp", lo |-> b[1], hi |-> b[2], x |-> x,
                   once |-> Clamp(b[1], b[2], x),
                   twice |-> Clamp(b[1], b[2], Clamp(b[1], b[2], x))]
    /\ PureRest
    /\ UNCHANGED <<report, twin, app>>

\* the occurrence decision of the collector for one date, window offset,
\* noise level and level of the occurrence draw
OccurrenceOf(month, k, noise, lv, p) ==
    [op |-> "occurrence", month |-> month, k |-> k, noise |-> noise,
     u |-> Uniform01[lv], final_prob |-> p.final_prob,
     has_sunset_clouds |-> CollectorHas(<<noise, lv>>, p),
     absent_for |-> {Uniform01[l] : l \in {l \in Levels : ~CollectorHas(<<noise, l>>, p)}}]

PureOccurrence ==
    /\ pure.op = "none"
    /\ \E month \in 1 .. 12, k \in 0 .. MaxOffset, noise \in Levels, lv \in Levels :
          pure' = OccurrenceOf(month, k, noise, lv, CollectorProbability(month, k, noise))
    /\ PureRest
    /\ UNCHANGED <<report, twin, app>>

PureNext ==
    \/ PureClamp
    \/ PureWeather
    \/ PureProbability
    \/ PureOccurrence
    \/ PureCollectorDay
    \/ PureAnalyzerDay

InitPure == Init /\ stream = 1 /\ rngState = 7

SpecPure == InitPure /\ [][PureNext]_vars

(***************************************************************************)
(* The reporter on its own: the statistics after the loop and save_data,   *)
(* applied to datasets whose occurrence column follows a periodic pattern. *)
(* data_list holds the dataset the reporter is given.                      *)
(***************************************************************************)
\* len(date_range) for the window sy .. ey
DaysOfWindow(sy, ey) ==
    ToOrdinal(MkDate(ey, 12, 31)) - ToOrdinal(MkDate(sy, 1, 1)) + 1

\* the occurrence column of n rows: hits occurrences in every period rows
OccurrenceColumn(n, period, hits) ==
    [i \in 1 .. n |-> [has_sunset_clouds |-> (i % period) < hits]]

\* the rows save_data groups: a month and an occurrence each
SaveRows == [month : 1 .. 12, has_sunset_clouds : BOOLEAN]

RECURSIVE SaveDatasets(_)
SaveDatasets(n) ==
    IF n = 0 THEN {<<>>}
    ELSE LET shorter == SaveDatasets(n - 1)
         IN  shorter \cup {Append(df, r) : df \in {x \in shorter : Len(x) = n - 1},
                                           r \in SaveRows}

\* num / den rounded to a whole number of units, as the format does
Rounded(num, den) == (2 * num + den) \div (2 * den)

\* monthly = data.groupby('month')['has_sunset_clouds'].agg(['sum', 'count',
\* 'mean']): the months that have rows, and their statistics
MonthIndex(data) == {data[i].month : i \in 1 .. Len(data)}
MonthRows(data, month) == SelectSeq(data, LAMBDA r : r.month = month)

\* the line written for a month: the count, and the mean in 0.1 %
MonthLine(data, month) ==
    IF month \in MonthIndex(data)
    THEN LET rows == MonthRows(data, month)
         IN  [ month |-> month, count |-> Occurrences(rows),
               rate |-> Rounded(Occurrences(rows) * 1000, Len(rows)) ]
    ELSE [month |-> month, count |-> 0, rate |-> 0]

\* a report that writes a line only for the months that have rows
MonthlyLinesOfIndex(data) ==
    LET RECURSIVE From(_)
        From(month) ==
            IF month > 12 THEN <<>>
            ELSE IF month \in MonthIndex(data)
                 THEN <<MonthLine(data, month)>> \o From(month + 1)
                 ELSE From(month + 1)
    IN  From(1)
\* for month in range(1, 13): f.write(...)
MonthlyLines(data) == [month \in 1 .. 12 |-> MonthLine(data, month)]

\* the report file save_data writes; success rate in 0.01 %
SavedReport(data) ==
    [ by |-> "save_data",
      total |-> Len(data),
      occurrences |-> Occurrences(data),
      success_rate |-> Rounded(Occurrences(data) * 10000, Len(data)),
      monthly |-> MonthlyLines(data) ]

ReportRest ==
    UNCHANGED <<pc, date, rngState, stream, seeded, error, baseline, rerun,
                otherDraws, locals, pure, twin, app>>

\* the statistics of generate_realistic_sunset_data(sy, ey) on a dataset
StatisticsCollector ==
    /\ report.by = "none"
    /\ \E sy \in Years, ey \in Years, period \in 1 .. MaxPeriod :
          \E hits \in 0 .. period :
              /\ sy <= ey
              /\ gen' = "collector"
              /\ start_year' = sy
              /\ end_year' = ey
              /\ data_list' = OccurrenceColumn(DaysOfWindow(sy, ey), period, hits)
              /\ report' = CollectorStatistics(data_list', sy, ey)
    /\ ReportRest

\* the statistics of generate_realistic_data() on a dataset
StatisticsAnalyzer ==
    /\ report.by = "none"
    /\ \E period \in 1 .. MaxPeriod : \E hits \in 0 .. period :
          /\ gen' = "analyzer"
          /\ data_list' =
                OccurrenceColumn(DaysOfWindow(DEFAULT_START_YEAR, DEFAULT_END_YEAR),
                                 period, hits)
          /\ report' = AnalyzerStatistics(data_list')
    /\ UNCHANGED <<start_year, end_year>>
    /\ ReportRest

\* save_data(data, filename): data is a frame generation returned, so it has
\* a row at least; to_csv and open raise when the path cannot be written
SaveData ==
    /\ report.by = "none"
    /\ \E data \in SaveDatasets(MaxSaveRows) \ {<<>>}, writable \in BOOLEAN :
          /\ data_list' = data
          /\ report' = IF writable THEN SavedReport(data) ELSE [by |-> "OSError"]
    /\ UNCHANGED <<gen, start_year, end_year>>
    /\ ReportRest

ReportNext == StatisticsCollector \/ StatisticsAnalyzer \/ SaveData

SpecReport == InitPure /\ [][ReportNext]_vars

(***************************************************************************)
(* Two generations side by side.  The seeded stream is a fixed sequence of *)
(* values consumed in order; the second generation reads the same sequence *)
(* with one value replaced, and both run the loop of the collector.        *)
(***************************************************************************)
\* the longest a day's draws can be, and the values MaxTwinDays days can read
MaxDayDraws == Len(CollectorDrawOrder(TRUE))
TwinStreamLen == MaxDayDraws * MaxTwinDays

\* the next n values of the sequence s after pos values were consumed
SeqDraws(s, pos, n) == [i \in 1 .. n |-> s[pos + i]]

\* a stream seeded again by every iteration: it starts over each day
ConsumedNone(pos, used) == pos
\* the values consumed once an iteration that issued used draws is over
Consumed(pos, used) == pos + used

\* np.random.seed(42), with the stream of the second generation replaced
\* at one position of the first day's longest reach
TwinStart ==
    /\ ~twin.on
    /\ \E sy \in Years, id \in StreamIds, at \in 1 .. MaxDayDraws, lv \in Levels :
          LET s == StreamDraws(id, np_random_seed(rngState, RNG_SEED), TwinStreamLen)
          IN  twin' = [ on |-> TRUE, start_year |-> sy, date |-> MkDate(sy, 1, 1),
                        changed |-> at,
                        s1 |-> s, s2 |-> [s EXCEPT ![at] = lv],
                        pos1 |-> 0, pos2 |-> 0, order1 |-> <<>>, order2 |-> <<>>,
                        rows1 |-> <<>>, rows2 |-> <<>> ]
    /\ PureRest
    /\ UNCHANGED <<pure, report, app>>

\* one iteration of the loop in both generations
TwinIterate ==
    /\ twin.on
    /\ Len(twin.rows1) < MaxTwinDays
    /\ LET r1 == CollectorDay(twin.date, twin.start_year,
                              SeqDraws(twin.s1, twin.pos1, MaxDayDraws))
           r2 == CollectorDay(twin.date, twin.start_year,
                              SeqDraws(twin.s2, twin.pos2, MaxDayDraws))
       IN  twin' = [twin EXCEPT !.date = NextDay(twin.date),
                                !.pos1 = Consumed(twin.pos1, r1.used),
                                !.pos2 = Consumed(twin.pos2, r2.used),
                                !.order1 = r1.order,
                                !.order2 = r2.order,
                                !.rows1 = Appended(twin.rows1, r1.row),
                                !.rows2 = Appended(twin.rows2, r2.row)]
    /\ PureRest
    /\ UNCHANGED <<pure, report, app>>

TwinNext == TwinStart \/ TwinIterate

SpecTwin == InitPure /\ [][TwinNext]_vars

(***************************************************************************)
(* Properties.                                                             *)
(***************************************************************************)
Rows == 1 .. Len(data_list)

\* the record a day function was last applied on its own produced
PureDay == pure.op \in {"collector_day", "analyzer_day"}

RowInRange(r) ==
    /\ 0 <= r.intensity /\ r.intensity <= 1000
    /\ 0 <= r.duration_minutes /\ r.duration_minutes <= 12000
    /\ 0 <= r.coverage_percent /\ r.coverage_percent <= 10000
    /\ 0 <= r.color_richness /\ r.color_richness <= 1000
    /\ 0 <= r.humidity_percent /\ r.humidity_percent <= 10000
    /\ 100 <= r.visibility_km /\ r.visibility_km <= 5000
    /\ r.wind_speed_kmh >= 0

\* C1: every Observation either generator builds, for any date and any
\* values of the draws, has intensity in [0,10], duration in [0,120],
\* coverage in [0,100], colour richness in [0,10], humidity in [0,100],
\* visibility in [1,50] and wind speed >= 0, occurrence or not.
C1_FieldsInRange == PureDay => RowInRange(pure.res.row)

\* C1 witness: an occurrence day on which the sampled intensity exceeded
\* 10, the humidity exceeded 100 and the visibility fell below 1, and a
\* non-occurrence day with the same humidity and visibility.
C1_ClampedDay ==
    /\ PureDay
    /\ pure.res.row.has_sunset_clouds
    /\ pure.res.raw.intensity > 1000 /\ pure.res.row.intensity = 1000
    /\ pure.res.raw.duration > 12000 /\ pure.res.row.duration_minutes = 12000
    /\ pure.res.raw.humidity > 10000 /\ pure.res.row.humidity_percent = 10000
    /\ pure.res.raw.visibility < 100 /\ pure.res.row.visibility_km = 100

RowZeroWhenAbsent(r) ==
    ~r.has_sunset_clouds =>
        /\ r.intensity = 0
        /\ r.duration_minutes = 0
        /\ r.coverage_percent = 0
        /\ r.color_richness = 0

\* C2: in every Observation of the Dataset, occurred = false implies
\* intensity = duration_minutes = coverage_percent = color_richness = 0.
C2_AbsentMeansZero == \A i \in Rows : RowZeroWhenAbsent(data_list[i])

\* C2 witness: a finished dataset holding a day without the phenomenon
\* and a day with it whose four attributes are positive.
C2_MixedDataset ==
    /\ pc = "done"
    /\ \E i \in Rows : ~data_list[i].has_sunset_clouds /\ data_list[i].intensity = 0
    /\ \E i \in Rows :
          /\ data_list[i].has_sunset_clouds
          /\ data_list[i].intensity > 0 /\ data_list[i].duration_minutes > 0
          /\ data_list[i].coverage_percent > 0 /\ data_list[i].color_richness > 0

\* a calendar date, and the calendar days between two dates
ValidDate(dt) ==
    /\ dt.month \in 1 .. 12
    /\ dt.day >= 1
    /\ dt.day <= DaysInMonth(dt.year, dt.month)

\* C3: at every point of generation the Dataset starts at 1 January of
\* start_year, every later row is the calendar day right after the row
\* before it (so dates strictly increase, without gap or duplicate, leap
\* days included), and on completion the last row is 31 December of
\* end_year.
C3_ConsecutiveDates ==
    /\ \A i \in Rows : ValidDate(data_list[i].date)
    /\ Len(data_list) > 0 => data_list[1].date = MkDate(start_year, 1, 1)
    /\ \A i \in Rows :
          i > 1 => ToOrdinal(data_list[i].date) = ToOrdinal(data_list[i - 1].date) + 1
    /\ pc = "done" => data_list[Len(data_list)].date = MkDate(end_year, 12, 31)

\* C3 witness: the finished dataset of a leap year, 29 February between
\* 28 February and 1 March.
C3_LeapYearDone ==
    /\ pc = "done"
    /\ IsLeap(start_year)
    /\ \E i \in Rows :
          /\ i > 1 /\ i < Len(data_list)
          /\ data_list[i].date = MkDate(start_year, 2, 29)
          /\ data_list[i - 1].date = MkDate(start_year, 2, 28)
          /\ data_list[i + 1].date = MkDate(start_year, 3, 1)

\* (end_date - start_date).days + 1
WindowDays == ToOrdinal(end_date) - ToOrdinal(start_date) + 1

\* a collector call on a window start_year <= end_year that the model
\* follows to its end
FollowedCollectorCall ==
    /\ gen = "collector"
    /\ start_year <= end_year
    /\ WindowDays <= MaxRows

\* the days of the window the loop has not reached yet
DaysToGo == ToOrdinal(end_date) - ToOrdinal(date) + 1

\* C4: generation over a window start_year <= end_year terminates after
\* exactly (end_date - start_date).days + 1 iterations with that many
\* rows, 366 for start_year = end_year = 2020: inside the loop the rows
\* appended and the days to go add up to the day count, the loop can
\* takes another iteration exactly while days are left and the code after
\* it runs when none is, and the call returns with exactly that many rows.
C4_TerminatesWithDayCount ==
    /\ (FollowedCollectorCall /\ pc = "collector") =>
          /\ DaysToGo >= 0
          /\ Len(data_list) + DaysToGo = WindowDays
          /\ HasNext <=> DaysToGo > 0
          /\ Len(data_list) < WindowDays <=> HasNext
    /\ (FollowedCollectorCall /\ pc = "done") =>
          /\ Len(data_list) = WindowDays
          /\ (start_year = 2020 /\ end_year = 2020) => Len(data_list) = 366

\* C4 witness: the call for 2020..2020 has returned 366 rows.
C4_LeapYear366 ==
    /\ pc = "done" /\ gen = "collector"
    /\ start_year = 2020 /\ end_year = 2020
    /\ Len(data_list) = 366

\* the current call repeats the call that produced the baseline
RepeatsBaseline ==
    /\ rerun
    /\ baseline.gen = gen
    /\ baseline.start_year = start_year
    /\ baseline.end_year = end_year

\* C5: two generation runs with the same seed and window produce the same
\* Dataset, row for row and field for field, whatever was drawn from the
\* process-wide stream before either began: a repeated call builds the
\* rows of the first in the same order and ends with an equal dataset.
C5_SameSeedSameDataset ==
    RepeatsBaseline =>
        /\ Len(data_list) <= Len(baseline.df)
        /\ \A i \in Rows : data_list[i] = baseline.df[i]
        /\ pc \in {"done", "cutoff"} => data_list = baseline.df

\* C5 witness: a second call for the same one-year window has returned,
\* after the first call consumed the stream, a dataset equal to the first.
C5_RepeatedRunDone ==
    /\ RepeatsBaseline
    /\ pc = "done"
    /\ baseline.complete
    /\ Len(data_list) >= 365
    /\ data_list = baseline.df

\* C6: for every month, year offset and value of the daily noise, the
\* occurrence probability lies in [0, 0.8].
C6_ProbabilityBounded ==
    pure.op = "probability" =>
        /\ 0 <= pure.res.final_prob
        /\ pure.res.final_prob <= 80000

\* C6 witness: noise below -1 makes the bracketed factor and the product
\* negative, and the probability is 0.
C6_NegativeFactor ==
    /\ pure.op = "probability"
    /\ StdNormal[pure.noise] * 2 < -10000
    /\ pure.res.factor < 0
    /\ pure.res.raw < 0
    /\ pure.res.final_prob = 0

\* C7: a call with end_year < start_year fails with a validation error
\* before the stream is seeded or drawn from, and returns no dataset.
C7_EmptyWindowRejectedBeforeSeeding ==
    (gen = "collector" /\ end_year < start_year) =>
        /\ pc = "raised"
        /\ error = "ValidationError"
        /\ ~seeded
        /\ data_list = <<>>

\* C9: clamping is idempotent and lands in [lo, hi], for every pair of
\* bounds a record or probability is clamped with and every input.
C9_ClampIdempotent ==
    pure.op = "clamp" =>
        /\ pure.twice = pure.once
        /\ pure.lo <= pure.once
        /\ pure.once <= pure.hi

\* C9 witness: an input above hi is clamped to hi, once and twice.
C9_ClampedAbove ==
    /\ pure.op = "clamp"
    /\ pure.x > pure.hi
    /\ pure.once = pure.hi
    /\ pure.twice = pure.hi

\* the seasons that list a month
SeasonsOf(m) == {i \in 1 .. Len(seasonal_factors) : m \in seasonal_factors[i].months}

\* C10: the season table splits months 1..12 into 4 groups of which
\* exactly one lists any month, the season_factor recorded for a day is
\* that group's cloud_factor, and no iteration is left without a match
\* (the default 1.0 is never what is recorded).
C10_SeasonPartition ==
    /\ Len(seasonal_factors) = 4
    /\ \A m \in 1 .. 12 : Cardinality(SeasonsOf(m)) = 1
    /\ gen = "collector" =>
          \A i \in Rows :
              \E j \in SeasonsOf(data_list[i].month) :
                  data_list[i].season_factor = seasonal_factors[j].cloud_factor
    /\ (gen = "collector" /\ locals.used > 0) =>
          locals.matched \in SeasonsOf(data_list[Len(data_list)].month)

\* C10 witness: a finished year whose February rows carry winter's
\* cloud_factor and whose November rows carry autumn's.
C10_AllSeasonsRecorded ==
    /\ pc = "done" /\ gen = "collector"
    /\ locals.matched = 4
    /\ \E i \in Rows : data_list[i].month = 2 /\ data_list[i].season_factor = 10
    /\ \E i \in Rows : data_list[i].month = 11 /\ data_list[i].season_factor = 12
    /\ \E i \in Rows : data_list[i].month = 7 /\ data_list[i].season_factor = 4
    /\ \E i \in Rows : data_list[i].month = 4 /\ data_list[i].season_factor = 6

(***************************************************************************)
(* Independence of the days.                                               *)
(***************************************************************************)
TwinRows == 1 .. Len(twin.rows1)

\* the occurrence outcomes of every day before day i agree
SameOutcomesBefore(i) ==
    \A j \in 1 .. (i - 1) :
        twin.rows1[j].has_sunset_clouds = twin.rows2[j].has_sunset_clouds

\* the draws the days before day i of the first generation issued
RECURSIVE DrawsBefore(_)
DrawsBefore(i) ==
    IF i <= 1 THEN 0
    ELSE DrawsBefore(i - 1)
            + Len(CollectorDrawOrder(twin.rows1[i - 1].has_sunset_clouds))

OccurrenceRows == {i \in Rows : data_list[i].has_sunset_clouds}

\* the draws of a day in the order the claim gives them, under the names of
\* the locals they are assigned to
OrderOfOccurrenceDay ==
    <<"daily_weather", "has_sunset_clouds", "base_intensity", "multiplier",
      "duration", "coverage", "color_richness",
      "temp", "humidity", "pressure", "visibility", "wind_speed">>
OrderOfOtherDay ==
    <<"daily_weather", "has_sunset_clouds",
      "temp", "humidity", "pressure", "visibility", "wind_speed">>

\* rows, the order of the last day's draws and the values consumed agree
\* with the claim
OrderAndCount(rows, order, pos) ==
    LET n == Len(rows)
        hits == Cardinality({i \in 1 .. n : rows[i].has_sunset_clouds})
    IN  n >= 1 =>
            /\ order = (IF rows[n].has_sunset_clouds THEN OrderOfOccurrenceDay
                        ELSE OrderOfOtherDay)
            /\ Len(order) = (IF rows[n].has_sunset_clouds THEN 12 ELSE 7)
            /\ pos = 12 * hits + 7 * (n - hits)

\* C12: a day issues its draws in the order noise, occurrence, then only on
\* an occurrence day base intensity, seasonal multiplier, duration, coverage,
\* colour multiplier, then temperature, humidity, pressure, visibility, wind:
\* 12 draws when the phenomenon occurred and 7 when not; the draws of a day
\* follow the last draw of the day before.
C12_DrawOrderAndCount ==
    twin.on =>
        /\ OrderAndCount(twin.rows1, twin.order1, twin.pos1)
        /\ OrderAndCount(twin.rows2, twin.order2, twin.pos2)

\* an occurrence day right after a day without occurrence
C12_OccurrenceAfterAbsence ==
    /\ twin.on
    /\ Len(twin.rows1) >= 2
    /\ twin.rows1[Len(twin.rows1)].has_sunset_clouds
    /\ ~twin.rows1[Len(twin.rows1) - 1].has_sunset_clouds
    /\ Len(twin.order1) = 12
    /\ twin.pos1 >= 19

(***************************************************************************)
(* Weather and occurrence.                                                 *)
(***************************************************************************)
DrawNames(order) == {order[i] : i \in 1 .. Len(order)}

\* C13: on every day temperature, humidity, pressure, visibility and wind
\* speed are each sampled, from distributions that depend on the month only:
\* a day of the same month with the other occurrence outcome draws them from
\* the same distributions.
C13_WeatherIgnoresOccurrence ==
    pure.op = "weather" =>
        /\ {"humidity", "pressure", "visibility", "wind_speed"}
                \subseteq DrawNames(pure.order)
        /\ {"temp", "temperature"} \cap DrawNames(pure.order) # {}
        /\ pure.res = WeatherOf(pure.gen, pure.month, ~pure.has_sunset_clouds)

(***************************************************************************)
(* The statistics printed after generation.                                *)
(***************************************************************************)
\* a / b = c / d for fractions a and b
SameFraction(a, b) == a.num * b.den = b.num * a.den

YearsSpanned == end_year - start_year + 1

\* C14: after generation the total day count is the number of rows, the
\* occurrence count the number of rows that occurred, the occurrence rate
\* occurrences / total days and the annualized average
\* occurrences / (end_year - start_year + 1).
C14_StatisticsOfDataset ==
    /\ report.by = "collector" =>
          /\ report.total_days = Len(data_list)
          /\ report.sunset_days = Cardinality(OccurrenceRows)
          /\ SameFraction(report.rate,
                          Fraction(100 * Cardinality(OccurrenceRows), Len(data_list)))
          /\ SameFraction(report.annual_avg,
                          Fraction(Cardinality(OccurrenceRows), YearsSpanned))
    /\ report.by = "analyzer" =>
          /\ report.total_observations = Len(data_list)
          /\ report.cloud_observations = Cardinality(OccurrenceRows)
          /\ SameFraction(report.annual_rate,
                          Fraction(Cardinality(OccurrenceRows), YearsSpanned))

(***************************************************************************)
(* The per-month breakdown of the report file.                             *)
(***************************************************************************)
RowsOfMonth(month) == {i \in Rows : data_list[i].month = month}

\* C15: the breakdown has exactly twelve entries, for the months 1..12 in
\* ascending order; a month without rows is written with count 0 and rate
\* 0, a month with rows with the sum of its occurrences and their mean rate
\* (in 0.1 %, rounded).
C15_TwelveMonthlyEntries ==
    report.by = "save_data" =>
        /\ Len(report.monthly) = 12
        /\ \A month \in 1 .. 12 :
              LET line == report.monthly[month]
                  rows == RowsOfMonth(month)
                  hits == Cardinality(rows \cap OccurrenceRows)
                  off == line.rate * Cardinality(rows) - 1000 * hits
              IN  /\ line.month = month
                  /\ rows = {} => (line.count = 0 /\ line.rate = 0)
                  /\ rows # {} =>
                        /\ line.count = hits
                        /\ 2 * off <= Cardinality(rows)
                        /\ -2 * off <= Cardinality(rows)

\* a report on a dataset that has rows of one month only, half of them
\* occurrences
C15_MonthsWithoutRows ==
    /\ report.by = "save_data"
    /\ Len(data_list) = 2
    /\ RowsOfMonth(11) = Rows
    /\ report.monthly[11].count = 1
    /\ report.monthly[11].rate = 500
    /\ report.monthly[12].count = 0

(***************************************************************************)
(* The dataset is only appended to.                                        *)
(***************************************************************************)
Running == {"collector", "analyzer"}

\* the step appended one record, for the date of the iteration, which had
\* no record yet, and left the records before it as they were
AppendedOne ==
    /\ Len(data_list') = Len(data_list) + 1
    /\ SubSeq(data_list', 1, Len(data_list)) = data_list
    /\ data_list'[Len(data_list')].date = date
    /\ \A i \in Rows : data_list[i].date # date

\* C16: an iteration appends exactly one Observation and leaves every
\* Observation appended before unchanged; an Observation is created once
\* per date and not changed afterwards; the statistics after the loop read
\* the Dataset without changing a row.
C16_AppendOnly ==
    [][ /\ (pc \in Running /\ pc' \in Running \cup {"cutoff"}) => AppendedOne
        /\ (pc \in Running /\ pc' \in {"done", "raised"}) => data_list' = data_list
        /\ (pc \in Callable /\ data_list' # data_list)
              => (pc' \in Running /\ data_list' = <<>>) ]_vars

\* a call of the collector that appended rows and printed its statistics
C16_RowsThenStatistics ==
    /\ pc = "done"
    /\ report.by = "collector"
    /\ Len(data_list) >= 2
    /\ report.total_days = Len(data_list)

(***************************************************************************)
(* The process-wide random state.                                          *)
(***************************************************************************)
\* C17: generation draws from a stream handed to it as an object and
\* neither reads nor writes the process-wide random state: no step of a
\* generation call changes the state of the process-wide generator, from
\* which other callers draw.
C17_ProcessWideStateUntouched ==
    [][ (pc \in Running \/ pc' \in Running) => rngState' = rngState ]_vars

(***************************************************************************)
(* The monthly base probabilities.                                         *)
(***************************************************************************)
\* C18: the base table has exactly the keys 1..12 with values in [0, 1];
\* November 0.40 > October 0.35 > December 0.30 > February 0.28 >
\* January 0.25 > June 0.08; the table of the built-in generator holds the
\* same twelve values; the probability model of a day starts from the
\* table's value of the month.
C18_BaseTable ==
    /\ DOMAIN monthly_sunset_probability = 1 .. 12
    /\ \A month \in 1 .. 12 :
          /\ 0 <= monthly_sunset_probability[month]
          /\ monthly_sunset_probability[month] <= 100000
    /\ <<monthly_sunset_probability[11], monthly_sunset_probability[10],
          monthly_sunset_probability[12], monthly_sunset_probability[2],
          monthly_sunset_probability[1], monthly_sunset_probability[6]>>
            = <<40000, 35000, 30000, 28000, 25000, 8000>>
    /\ monthly_sunset_probability[11] > monthly_sunset_probability[10]
    /\ monthly_sunset_probability[10] > monthly_sunset_probability[12]
    /\ monthly_sunset_probability[12] > monthly_sunset_probability[2]
    /\ monthly_sunset_probability[2] > monthly_sunset_probability[1]
    /\ monthly_sunset_probability[1] > monthly_sunset_probability[6]
    /\ DOMAIN realistic_month_prob = 1 .. 12
    /\ \A month \in 1 .. 12 :
          realistic_month_prob[month] = monthly_sunset_probability[month]
    /\ pure.op = "probability" =>
          pure.res.base_prob = realistic_month_prob[pure.month]

\* the probability model applied to a day of November
C18_NovemberBase ==
    /\ pure.op = "probability"
    /\ pure.month = 11
    /\ pure.res.base_prob = 40000

(***************************************************************************)
(* Intensity and colour richness of an occurrence day.                     *)
(***************************************************************************)
\* the collector's iteration was applied on its own to an occurrence day
PureOccurrenceDay ==
    pure.op = "collector_day" /\ pure.res.row.has_sunset_clouds

\* C19: on an occurrence day the seasonal multiplier of the intensity is
\* drawn from [1.2, 1.5] in every month of autumn and winter (9, 10, 11 and
\* 12, 1, 2), from [0.6, 0.9] in every month of summer (6, 7, 8) and from
\* [0.8, 1.1] in every other month.
C19_MultiplierBySeason ==
    PureOccurrenceDay =>
        LET month == pure.res.row.month
            multiplier == pure.res.raw.multiplier
        IN  IF month \in {9, 10, 11} \cup {12, 1, 2}
            THEN 1200 <= multiplier /\ multiplier <= 1500
            ELSE IF month \in {6, 7, 8}
                 THEN 600 <= multiplier /\ multiplier <= 900
                 ELSE 800 <= multiplier /\ multiplier <= 1100

\* C20: color_richness is computed from the intensity stored in the record:
\* color_richness = clamp(intensity * m, 0, 10) with the recorded intensity
\* in [0, 10] and m in [0.8, 1.2], so recorded intensity 10 and m = 0.8 give
\* color_richness 8.
C20_ColourFromRecordedIntensity ==
    PureOccurrenceDay =>
        LET row == pure.res.row
            m == pure.res.raw.color_multiplier
        IN  /\ 800 <= m /\ m <= 1200
            /\ row.color_richness = Clamp(0, 1000, (row.intensity * m) \div 1000)

(***************************************************************************)
(* The analyzer's data acquisition methods and main().                     *)
(* app.data is the origin of analyzer.data: "None" after __init__,         *)
(* "loaded_raw" after read_csv, "loaded" once the date column is parsed,   *)
(* "collector" or "builtin" after a generation.  app.generated records     *)
(* that a generator ran in the current call, app.network counts network    *)
(* requests, app.charts the chart and report steps main has completed.     *)
(***************************************************************************)

\* the steps main runs on the analyzer after the data acquisition
MainSteps ==
    <<"create_annual_heatmap", "create_circular_calendar", "create_3d_landscape",
      "create_interactive_dashboard", "create_sunset_mandala",
      "create_flowing_river_chart", "create_constellation_map",
      "create_musical_score", "create_flower_bloom_animation",
      "generate_summary_report">>

\* a return of the dataset: to main's try block, or to the caller
Returned(a, origin) ==
    IF a.method = "main"
    THEN [a EXCEPT !.pc = "charts", !.in_try = FALSE]
    ELSE [a EXCEPT !.pc = "returned", !.returned = origin]

\* an exception leaving the method: main's bare except catches it once
Raised(a, src) ==
    IF a.method = "main" /\ a.in_try
    THEN [a EXCEPT !.pc = "except", !.failed = src, !.in_try = FALSE]
    ELSE [a EXCEPT !.pc = "raised", !.failed = src]

AppRest ==
    /\ PureRest
    /\ UNCHANGED <<pure, report, twin>>

\* HongKongSunsetClouds() in an environment where the data file may exist
\* and hko_data_collector may be importable
Constructed(m, fe, has) ==
    [NoApp EXCEPT !.method = m, !.file_exists = fe, !.HAS_DATA_COLLECTOR = has]

MainStart ==
    /\ app.pc = "idle"
    /\ \E fe \in BOOLEAN, has \in BOOLEAN :
         app' = [Constructed("main", fe, has) EXCEPT !.pc = "get_real_hko_data",
                                                     !.in_try = TRUE]
    /\ AppRest

CallGetRealHkoData ==
    /\ app.pc = "idle"
    /\ \E fe \in BOOLEAN, has \in BOOLEAN :
         app' = [Constructed("get_real_hko_data", fe, has)
                   EXCEPT !.pc = "get_real_hko_data"]
    /\ AppRest

\* process_hko_data reads two values of its argument, then generates
CallProcessHkoData ==
    /\ app.pc = "idle"
    /\ \E fe \in BOOLEAN, has \in BOOLEAN, wellFormed \in BOOLEAN :
         LET a == Constructed("process_hko_data", fe, has)
         IN  app' = IF wellFormed
                    THEN [a EXCEPT !.pc = "generate_realistic_data"]
                    ELSE Raised(a, "process_hko_data")
    /\ AppRest

CallGetHistoricalWeatherData ==
    /\ app.pc = "idle"
    /\ \E fe \in BOOLEAN, has \in BOOLEAN :
         app' = [Constructed("get_historical_weather_data", fe, has)
                   EXCEPT !.pc = "generate_realistic_data"]
    /\ AppRest

FetchCurrentConditionsOverNetwork ==
    /\ app.pc = "idle"
    /\ \E fe \in BOOLEAN, has \in {TRUE} :
         app' = [Constructed("fetch_current_conditions", fe, has)
                   EXCEPT !.pc = "returned", !.returned = "hk_climate_data",
                          !.network = 1]
    /\ AppRest

\* the collector's fetch_current_conditions returns its literal tables
FetchCurrentConditions ==
    /\ app.pc = "idle"
    /\ \E fe \in BOOLEAN, has \in {TRUE} :
         app' = [Constructed("fetch_current_conditions", fe, has)
                   EXCEPT !.pc = "returned", !.returned = "hk_climate_data"]
    /\ AppRest

\* if os.path.exists(data_file)
PathExists ==
    /\ app.pc = "get_real_hko_data"
    /\ app' = [app EXCEPT !.pc = IF app.file_exists THEN "read_csv"
                                 ELSE "HAS_DATA_COLLECTOR"]
    /\ AppRest

\* self.data = pd.read_csv(data_file), inside try / except Exception
ReadCsv ==
    /\ app.pc = "read_csv"
    /\ \/ app' = [app EXCEPT !.pc = "to_datetime", !.data = "loaded_raw"]
       \/ app' = [app EXCEPT !.pc = "HAS_DATA_COLLECTOR", !.failed = "read_csv"]
    /\ AppRest

\* self.data['date'] = pd.to_datetime(self.data['date']); return self.data
ToDatetime ==
    /\ app.pc = "to_datetime"
    /\ \/ app' = Returned([app EXCEPT !.data = "loaded"], "loaded")
       \/ app' = [app EXCEPT !.pc = "HAS_DATA_COLLECTOR", !.failed = "to_datetime"]
    /\ AppRest

\* if HAS_DATA_COLLECTOR: ... else: return self.generate_realistic_data()
ChooseGenerator ==
    /\ app.pc = "HAS_DATA_COLLECTOR"
    /\ app' = [app EXCEPT !.pc = IF app.HAS_DATA_COLLECTOR
                                 THEN "generate_realistic_sunset_data"
                                 ELSE "generate_realistic_data"]
    /\ AppRest

\* self.data = collector.generate_realistic_sunset_data(2000, 2020)
CollectorGenerate ==
    /\ app.pc = "generate_realistic_sunset_data"
    /\ \/ app' = [app EXCEPT !.pc = "save_data", !.data = "collector",
                             !.generated = TRUE]
       \/ app' = Raised(app, "generate_realistic_sunset_data")
    /\ AppRest

\* collector.save_data(self.data, ...); return self.data
CollectorSave ==
    /\ app.pc = "save_data"
    /\ \/ app' = Returned(app, "collector")
       \/ app' = Raised(app, "save_data")
    /\ AppRest

\* generate_realistic_data: self.data is assigned before the summary is printed
GenerateRealisticData ==
    /\ app.pc = "generate_realistic_data"
    /\ LET a == [app EXCEPT !.data = "builtin", !.generated = TRUE]
       IN  \/ app' = Returned(a, "builtin")
           \/ app' = Raised(a, "generate_realistic_data")
           \/ app' = Raised(app, "generate_realistic_data")
    /\ AppRest

MainFallbackPass ==
    /\ app.pc = "except"
    /\ app' = [app EXCEPT !.pc = "charts"]
    /\ AppRest

\* except: data = analyzer.generate_realistic_data()
MainFallback ==
    /\ app.pc = "except"
    /\ app' = [app EXCEPT !.pc = "generate_realistic_data"]
    /\ AppRest

\* one of the chart or report steps of main, which may raise
MainStep ==
    /\ app.pc = "charts"
    /\ app.charts < Len(MainSteps)
    /\ \/ app' = [app EXCEPT !.charts = @ + 1]
       \/ app' = Raised(app, MainSteps[app.charts + 1])
    /\ AppRest

MainFinish ==
    /\ app.pc = "charts"
    /\ app.charts = Len(MainSteps)
    /\ app' = [app EXCEPT !.pc = "finished"]
    /\ AppRest

MainNext ==
    \/ MainStart
    \/ CallGetRealHkoData
    \/ CallProcessHkoData
    \/ CallGetHistoricalWeatherData
    \/ FetchCurrentConditions
    \/ PathExists
    \/ ReadCsv
    \/ ToDatetime
    \/ ChooseGenerator
    \/ CollectorGenerate
    \/ CollectorSave
    \/ GenerateRealisticData
    \/ MainFallback
    \/ MainStep
    \/ MainFinish

SpecMain == InitPure /\ [][MainNext]_vars

\* the methods that appear to retrieve observational data
RetrievalMethods ==
    {"get_real_hko_data", "process_hko_data", "get_historical_weather_data",
     "fetch_current_conditions"}

\* C21: every retrieval method performs no network request and returns a
\* dataset that a synthetic generation produced in the same call
C21_AlwaysGeneratedInCall ==
    /\ app.network = 0
    /\ (app.pc = "returned" /\ app.method \in RetrievalMethods)
         => /\ app.generated
            /\ app.returned \in {"collector", "builtin"}
            /\ app.data = app.returned

\* C21: no retrieval method performs a network request; process_hko_data and
\* get_historical_weather_data return the dataset the built-in generator
\* produced in the same call; get_real_hko_data returns the parsed data file
\* without generating when the file exists and loads, and otherwise a dataset
\* generated in the same call; fetch_current_conditions returns its tables
C21_GeneratedUnlessFileLoaded ==
    /\ app.network = 0
    /\ app.pc = "returned" =>
         /\ app.method \in RetrievalMethods
         /\ app.method \in {"process_hko_data", "get_historical_weather_data"}
              => app.returned = "builtin" /\ app.generated /\ app.data = "builtin"
         /\ app.method = "get_real_hko_data"
              => \/ /\ app.returned = "loaded"
                    /\ app.data = "loaded"
                    /\ app.file_exists
                    /\ ~app.generated
                 \/ /\ app.returned = "collector"
                    /\ app.data = "collector"
                    /\ app.HAS_DATA_COLLECTOR
                    /\ app.generated
                 \/ /\ app.returned = "builtin"
                    /\ app.data = "builtin"
                    /\ ~app.HAS_DATA_COLLECTOR
                    /\ app.generated
         /\ app.method = "fetch_current_conditions"
              => app.returned = "hk_climate_data" /\ ~app.generated

C21_FileLoadedWithoutGeneration ==
    /\ app.pc = "returned"
    /\ app.method = "get_real_hko_data"
    /\ app.returned = "loaded"
    /\ ~app.generated

(***************************************************************************)
(* The occurrence decision.                                                *)
(***************************************************************************)
\* C22: the occurrence is never certain and never possible at probability
\* zero: occurred is exactly u < final_prob with final_prob in [0, 0.8], so
\* for every month, offset and noise some u in [0, 1) gives no occurrence,
\* every u >= 0.8 gives no occurrence, and at final_prob = 0 no u gives one.
C22_NeverCertainNeverAtZero ==
    pure.op = "occurrence" =>
        /\ pure.final_prob \in 0 .. 80000
        /\ pure.has_sunset_clouds <=> pure.u < pure.final_prob
        /\ pure.absent_for # {}
        /\ \A u \in pure.absent_for : u >= pure.final_prob
        /\ pure.u >= 80000 => ~pure.has_sunset_clouds /\ pure.u \in pure.absent_for
        /\ pure.final_prob = 0 =>
              ~pure.has_sunset_clouds /\ pure.absent_for = {Uniform01[l] : l \in Levels}

C22_AbsentAtSaturatedProbability ==
    /\ pure.op = "occurrence"
    /\ pure.final_prob = 80000
    /\ pure.u >= 80000
    /\ ~pure.has_sunset_clouds

C22_AbsentAtZeroProbability ==
    /\ pure.op = "occurrence"
    /\ pure.final_prob = 0
    /\ pure.u = 0
    /\ ~pure.has_sunset_clouds

(***************************************************************************)
(* Duration and occurrence.                                                *)
(***************************************************************************)
\* C23: in every record of the collector the phenomenon occurred exactly when
\* duration_minutes > 0: on an occurrence day the duration is 15 plus a
\* non-negative exponential draw, cut at 120, so it lies in [15, 120]; on any
\* other day it is 0.
C23_DurationIffOccurred ==
    pure.op = "collector_day" =>
        LET row == pure.res.row
            duration == pure.res.raw.duration
        IN  /\ row.has_sunset_clouds <=> row.duration_minutes > 0
            /\ row.has_sunset_clouds =>
                  /\ duration >= 1500
                  /\ row.duration_minutes = Min2(12000, duration)
                  /\ row.duration_minutes \in 1500 .. 12000
            /\ ~row.has_sunset_clouds => row.duration_minutes = 0

C23_OccurrenceCutAtTwoHours ==
    /\ pure.op = "collector_day"
    /\ pure.res.row.has_sunset_clouds
    /\ pure.res.raw.duration > 12000
    /\ pure.res.row.duration_minutes = 12000

C23_OccurrenceOfQuarterHour ==
    /\ pure.op = "collector_day"
    /\ pure.res.row.has_sunset_clouds
    /\ pure.res.row.duration_minutes = 1500

(***************************************************************************)
(* main: the dataset is held before the first chart.                       *)
(***************************************************************************)
\* the calls of get_real_hko_data whose exception reaches main
EscapingSteps == {"generate_realistic_sunset_data", "save_data", "generate_realistic_data"}

\* main has reached its chart and report steps
AtCharts == app.method = "main" /\ (app.pc \in {"charts", "finished"} \/ app.charts > 0)

\* C24: in main no chart or report step runs before the analyzer holds a
\* dataset: on every path of get_real_hko_data (file loaded, load failing and
\* falling through, collector generation followed by a failing save, built-in
\* generator), and whenever get_real_hko_data raises, in which case main falls
\* back to generate_realistic_data, analyzer.data is set before
\* create_annual_heatmap runs.
C24_DatasetBeforeCharts ==
    /\ AtCharts => app.data \in {"loaded", "collector", "builtin"}
    /\ (AtCharts /\ app.pc = "charts" /\ app.failed \in EscapingSteps)
          => app.data = "builtin"
    /\ (app.method = "main" /\ app.pc = "except") => app.failed \in EscapingSteps

C24_ChartsAfterFailedSave ==
    /\ app.method = "main"
    /\ app.pc = "charts"
    /\ app.charts >= 1
    /\ app.failed = "save_data"
    /\ app.data = "builtin"

=============================================================================
